---- MODULE Spec2Model ----
(***************************************************************************)
(* Model of standup/auth0/middleware.py: the id_token validation           *)
(* middleware (ValidateIdToken, ValidateIdTokenUsingCache) and the         *)
(* delegation call renew_id_token.                                         *)
(*                                                                         *)
(* Shared state is the IdToken table, the Django cache and the sessions.   *)
(* Every request runs process_request; the steps of one request are the    *)
(* places where it reads or writes shared state or waits for the network,  *)
(* so that requests of the same user can interleave and time can pass      *)
(* between the steps.                                                      *)
(***************************************************************************)
EXTENDS Integers, Sequences, FiniteSets, TLC

\* ------------------------------------------------------------------ bounds
MaxTime == 5
NumReqs == 2

\* --------------------------------------------------------- configuration
\* app_settings.AUTH0_ID_TOKEN_EXPIRY, in ticks of the model clock
AUTH0_ID_TOKEN_EXPIRY == 2

\* app_settings.AUTH0_CALLBACK_URL, as urlparse splits it
AUTH0_CALLBACK_URL == [scheme |-> "https", netloc |-> "standup", path |-> "/auth/callback"]

urlparse(url) == [scheme |-> url.scheme, netloc |-> url.netloc, path |-> url.path]

\* ValidateIdToken.exception_paths
exception_paths == { urlparse(AUTH0_CALLBACK_URL).path }

\* app_settings.AUTH0_ID_TOKEN_DOMAINS (lower case)
AUTH0_ID_TOKEN_DOMAINS == { <<"m", "z">> }

AUTH0_SIGNIN_VIEW == "signin"

\* ------------------------------------------------------------------ users
Anonymous == "anonymous"
Users == {"alice", "bob", "carol", "dan"}

\* request.user: is_active and email (a string, as a sequence of characters);
\* an email that is not empty holds an '@'
UserRec(u) ==
    CASE u = "alice" -> [is_active |-> TRUE,  email |-> <<"a", "@", "M", "z">>]
      [] u = "bob"   -> [is_active |-> TRUE,  email |-> <<"b", "@", "x", "y">>]
      [] u = "carol" -> [is_active |-> FALSE, email |-> <<"c", "@", "m", "z">>]
      [] u = "dan"   -> [is_active |-> TRUE,  email |-> <<>>]
      [] OTHER       -> [is_active |-> FALSE, email |-> <<>>]

\* str.lower() on the alphabet of the model
LowerChar(c) ==
    CASE c = "M" -> "m"
      [] c = "Z" -> "z"
      [] c = "X" -> "x"
      [] OTHER   -> c

lower(s) == [i \in 1..Len(s) |-> LowerChar(s[i])]

\* s.split('@', 1)[1]: what follows the first '@'
AfterFirstAt(s) ==
    LET ats == { i \in 1..Len(s) : s[i] = "@" }
        first == CHOOSE i \in ats : \A j \in ats : i <= j
    IN  SubSeq(s, first + 1, Len(s))

\* domain = request.user.email.lower().split('@', 1)[1]
EmailDomain(email) == AfterFirstAt(lower(email))

\* ----------------------------------------------------------------- values
None == "None"

TokenValues == {"t0", "t1"}
\* id_token strings a delegation response can carry; "" is a falsy one
ResponseTokens == {"t1", ""}

\* what requests.post(...) and response.json() can do: a JSON object with or
\* without id_token, a body that is not JSON, or an exception of requests:
\* the two timeouts, or a ConnectionError when the connection cannot be made
RenewOutcomes ==
    { [kind |-> "json", id_token |-> t] : t \in ResponseTokens }
    \cup { [kind |-> "json", id_token |-> None],       \* JSON without id_token
           [kind |-> "not_json", id_token |-> None],   \* JSONDecodeError
           [kind |-> "ConnectTimeout", id_token |-> None],
           [kind |-> "ReadTimeout", id_token |-> None],
           [kind |-> "ConnectionError", id_token |-> None] }

Reqs == 1..NumReqs

VARIABLES
    strategy,     \* "direct" (ValidateIdToken) or "cached" (ValidateIdTokenUsingCache)
    now,          \* timezone.now() / the cache's clock
    tokens,       \* IdToken table: a set of rows [id, user, id_token, expire]
    cache,        \* django cache: a set of entries [key, value, expires]
    session,      \* user -> TRUE while the session is authenticated
    pc,           \* position of each request in process_request
    req,          \* the request: method, is_ajax, path, user
    token,        \* local variable token of process_request
    new_id_token, \* local variable new_id_token
    response,     \* what process_request returned
    msgs,         \* messages.error calls of the request, in order
    calls,        \* per request: what it called (is_expired, renew, logout, ...)
    oracleCall    \* last direct call of an oracle method

vars == <<strategy, now, tokens, cache, session, pc, req, token, new_id_token,
          response, msgs, calls, oracleCall>>

\* ------------------------------------------------------------ IdToken table
\* primary key of the row that belongs to a user
PK(u) == CASE u = "alice" -> 1 [] u = "bob" -> 2 [] u = "carol" -> 3 [] u = "dan" -> 4 [] OTHER -> 0

NullToken == [id |-> 0, user |-> Anonymous, id_token |-> None, expire |-> 0]

\* rows that IdToken.objects.get(user=u) matches
RowsOf(table, u) == { row \in table : row.user = u }

\* IdToken.objects.get(user=u): the row, or DoesNotExist
DoesNotExist(table, u) == RowsOf(table, u) = {}
objects_get(table, u) == CHOOSE row \in RowsOf(table, u) : TRUE

\* save() with update_fields=['id_token']: the expiration is not written
saveTokenOnly(table, obj) ==
    { row \in table : row.id # obj.id }
    \cup { [row EXCEPT !.id_token = obj.id_token] : row \in { x \in table : x.id = obj.id } }

\* save() with update_fields=['expire']: the token value is not written
saveExpireOnly(table, obj) ==
    { row \in table : row.id # obj.id }
    \cup { [row EXCEPT !.expire = obj.expire] : row \in { x \in table : x.id = obj.id } }

\* save(force_insert=True): a new row instead of an UPDATE
saveInsert(table, obj) == table \cup { obj }

\* token.save(): one UPDATE of every field of the row with the object's pk
save(table, obj) == { row \in table : row.id # obj.id } \cup { obj }

\* --------------------------------------------------------------- the cache
CacheKey(u) == <<"auth0:renew_id_token", u>>

\* cache.get(key): the value of a live entry, or nothing
cache_get(c, key, t) ==
    LET live == { e \in c : e.key = key /\ t < e.expires }
    IN  IF live = {} THEN [found |-> FALSE, value |-> FALSE]
        ELSE [found |-> TRUE, value |-> (CHOOSE e \in live : TRUE).value]

\* cache.set(key, value, timeout)
cache_set(c, key, value, timeout, t) ==
    { e \in c : e.key # key } \cup { [key |-> key, value |-> value, expires |-> t + timeout] }

\* bool(x) of what cache.get returned
bool(x) == x.found /\ x.value

\* "if new_id_token != '':" for "if new_id_token:"
TruthyNotEmpty(s) == s # ""

\* truth value of a string or None, as in "if new_id_token:"
Truthy(s) == s # None /\ s # ""

\* ------------------------------------------------------ Expiration oracle
\* is_expired with ">" for "<": "token.expire > timezone.now()"
DirectIsExpiredInverted(table, u, t) ==
    IF DoesNotExist(table, u) THEN TRUE
    ELSE objects_get(table, u).expire > t

\* is_expired with "<=" for "<": a token counts as expired at its expiration
DirectIsExpiredAtExpiry(table, u, t) ==
    IF DoesNotExist(table, u) THEN TRUE
    ELSE objects_get(table, u).expire <= t

\* ValidateIdToken.is_expired
DirectIsExpired(table, u, t) ==
    IF DoesNotExist(table, u) THEN TRUE
    ELSE objects_get(table, u).expire < t

\* ValidateIdTokenUsingCache.is_expired
CachedIsExpired(c, u, t) == bool(cache_get(c, CacheKey(u), t))

is_expired(strat, table, c, u, t) ==
    IF strat = "cached" THEN CachedIsExpired(c, u, t) ELSE DirectIsExpired(table, u, t)

\* update_expiration of the base class writing the cache entry as well
DirectUpdateExpirationWrites(c, u, t) ==
    cache_set(c, CacheKey(u), TRUE, AUTH0_ID_TOKEN_EXPIRY, t)

\* ValidateIdToken.update_expiration: a no-op
DirectUpdateExpiration(c, u, t) == c

\* update_expiration with a timeout of twice AUTH0_ID_TOKEN_EXPIRY
CachedUpdateExpirationLong(c, u, t) ==
    cache_set(c, CacheKey(u), TRUE, 2 * AUTH0_ID_TOKEN_EXPIRY, t)

\* ValidateIdTokenUsingCache.update_expiration
CachedUpdateExpiration(c, u, t) == cache_set(c, CacheKey(u), TRUE, AUTH0_ID_TOKEN_EXPIRY, t)

update_expiration(strat, c, u, t) ==
    IF strat = "cached" THEN CachedUpdateExpiration(c, u, t) ELSE DirectUpdateExpiration(c, u, t)

\* renew_id_token without the "except simplejson.JSONDecodeError" clause
renew_id_tokenNoExcept(outcome) ==
    CASE outcome.kind = "json"     -> [raised |-> None, value |-> outcome.id_token]
      [] outcome.kind = "not_json" -> [raised |-> "JSONDecodeError", value |-> None]
      [] OTHER                     -> [raised |-> outcome.kind, value |-> None]

\* ------------------------------------------------------- renew_id_token
\* what renew_id_token does with one outcome of the POST:
\* raises the exception, or returns result.get('id_token'), or returns None
renew_id_token(outcome) ==
    CASE outcome.kind = "json"     -> [raised |-> None, value |-> outcome.id_token]
      [] outcome.kind = "not_json" -> [raised |-> None, value |-> None]
      [] OTHER                     -> [raised |-> outcome.kind, value |-> None]

\* except (ConnectTimeout, ReadTimeout)
CaughtByProcessRequest(exc) == exc \in {"ConnectTimeout", "ReadTimeout"}

\* ------------------------------------------------------------- messages
MsgWrongProvider == "wrong provider"
MsgNetworkProblem == "temporary network problem"
MsgExpiredSession == "expired authentication session"

\* ------------------------------------------------------------- requests
\* the requests that arrive: a plain page view, and the three that differ from
\* it in one attribute the middleware looks at
Shapes ==
    { [method |-> "GET",  is_ajax |-> FALSE, path |-> "/"],
      [method |-> "POST", is_ajax |-> FALSE, path |-> "/"],
      [method |-> "GET",  is_ajax |-> TRUE,  path |-> "/"],
      [method |-> "GET",  is_ajax |-> FALSE, path |-> "/auth/callback"] }

NullReq == [method |-> "-", is_ajax |-> FALSE, path |-> "-", user |-> Anonymous]
NoCalls == [is_expired |-> 0, expired |-> FALSE, renew |-> 0, renew_arg |-> None,
            outcome |-> None, save |-> 0, update_expiration |-> 0, logout |-> 0,
            lagged |-> FALSE]

Pending == [kind |-> "pending", to |-> None]
ReturnNone == [kind |-> "none", to |-> None]
HttpResponseRedirect(view) == [kind |-> "redirect", to |-> view]
Raised == [kind |-> "raised", to |-> None]

\* the outer "if" without the exception_paths condition
ApplicableAnyPath(rq) ==
    /\ rq.method # "POST"
    /\ ~rq.is_ajax
    /\ UserRec(rq.user).is_active
    /\ UserRec(rq.user).email # <<>>

\* the outer "if" without the is_ajax condition
ApplicableAjaxToo(rq) ==
    /\ rq.method # "POST"
    /\ UserRec(rq.user).is_active
    /\ UserRec(rq.user).email # <<>>
    /\ rq.path \notin exception_paths

\* the condition of the outer "if" of process_request
Applicable(rq) ==
    /\ rq.method # "POST"
    /\ ~rq.is_ajax
    /\ UserRec(rq.user).is_active
    /\ UserRec(rq.user).email # <<>>
    /\ rq.path \notin exception_paths

\* the domain condition inverted: "if domain in ...: return"
DomainCheckedInverted(rq) == EmailDomain(UserRec(rq.user).email) \notin AUTH0_ID_TOKEN_DOMAINS

\* domain in app_settings.AUTH0_ID_TOKEN_DOMAINS
DomainChecked(rq) == EmailDomain(UserRec(rq.user).email) \in AUTH0_ID_TOKEN_DOMAINS

\* a logout that leaves the session as it is
logoutKeepsSession(s, u) == s

\* logout(request): the session of the request's user is flushed
logout(s, u) == [s EXCEPT ![u] = FALSE]

\* ------------------------------------------------------------------ Init
InitExpire == 1

\* the tables the run can start from: rows were created at sign-in, one per
\* user at most, for nobody, for alice only, for the others only, or for all
InitHolders == { {}, {"alice"}, Users \ {"alice"}, Users }

InitTokens ==
    { { [id |-> PK(u), user |-> u, id_token |-> "t0", expire |-> InitExpire] : u \in S } :
        S \in InitHolders }

Init ==
    /\ strategy \in {"direct", "cached"}
    /\ now = 0
    /\ tokens \in InitTokens
    /\ cache = {}
    /\ session = [u \in Users |-> TRUE]
    /\ pc = [r \in Reqs |-> "idle"]
    /\ req = [r \in Reqs |-> NullReq]
    /\ token = [r \in Reqs |-> NullToken]
    /\ new_id_token = [r \in Reqs |-> None]
    /\ response = [r \in Reqs |-> Pending]
    /\ msgs = [r \in Reqs |-> <<>>]
    /\ calls = [r \in Reqs |-> NoCalls]
    /\ oracleCall = [op |-> "-", user |-> Anonymous, ret |-> FALSE, at |-> 0]

\* ------------------------------------------------------------- actions
\* time passes
Tick ==
    /\ now < MaxTime
    /\ now' = now + 1
    /\ UNCHANGED <<strategy, tokens, cache, session, pc, req, token, new_id_token,
                   response, msgs, calls, oracleCall>>

\* a request arrives and process_request evaluates the eligibility conditions
\* (lines 98-110); the user of a flushed session is the anonymous user
Begin(r, shape, who) ==
    LET rq == [method |-> shape.method, is_ajax |-> shape.is_ajax, path |-> shape.path,
               user |-> IF who \in Users /\ session[who] THEN who ELSE Anonymous]
    IN  /\ pc[r] = "idle"
        /\ req' = [req EXCEPT ![r] = rq]
        /\ IF Applicable(rq) /\ DomainChecked(rq)
           THEN /\ pc' = [pc EXCEPT ![r] = "check_expiry"]
                /\ UNCHANGED response
           ELSE /\ pc' = [pc EXCEPT ![r] = "done"]
                /\ response' = [response EXCEPT ![r] = ReturnNone]
        /\ UNCHANGED <<strategy, now, tokens, cache, session, token, new_id_token,
                       msgs, calls, oracleCall>>

\* "if self.is_expired(request): return": the test of line 112 without "not"
CheckExpiryInverted(r) ==
    LET exp == is_expired(strategy, tokens, cache, req[r].user, now)
    IN  /\ pc[r] = "check_expiry"
        /\ calls' = [calls EXCEPT ![r].is_expired = @ + 1, ![r].expired = exp]
        /\ IF ~exp
           THEN /\ pc' = [pc EXCEPT ![r] = "load_token"]
                /\ UNCHANGED response
           ELSE /\ pc' = [pc EXCEPT ![r] = "done"]
                /\ response' = [response EXCEPT ![r] = ReturnNone]
        /\ UNCHANGED <<strategy, now, tokens, cache, session, req, token, new_id_token,
                       msgs, oracleCall>>

\* if not self.is_expired(request): return   (lines 112-113)
CheckExpiry(r) ==
    LET exp == is_expired(strategy, tokens, cache, req[r].user, now)
    IN  /\ pc[r] = "check_expiry"
        /\ calls' = [calls EXCEPT ![r].is_expired = @ + 1, ![r].expired = exp]
        /\ IF exp
           THEN /\ pc' = [pc EXCEPT ![r] = "load_token"]
                /\ UNCHANGED response
           ELSE /\ pc' = [pc EXCEPT ![r] = "done"]
                /\ response' = [response EXCEPT ![r] = ReturnNone]
        /\ UNCHANGED <<strategy, now, tokens, cache, session, req, token, new_id_token,
                       msgs, oracleCall>>

\* the DoesNotExist handler without logout(request)
LoadTokenNoLogout(r) ==
    /\ pc[r] = "load_token"
    /\ IF DoesNotExist(tokens, req[r].user)
       THEN /\ msgs' = [msgs EXCEPT ![r] = Append(@, MsgWrongProvider)]
            /\ response' = [response EXCEPT ![r] = HttpResponseRedirect(AUTH0_SIGNIN_VIEW)]
            /\ pc' = [pc EXCEPT ![r] = "done"]
            /\ UNCHANGED <<token, session, calls>>
       ELSE /\ token' = [token EXCEPT ![r] = objects_get(tokens, req[r].user)]
            /\ pc' = [pc EXCEPT ![r] = "renew"]
            /\ UNCHANGED <<msgs, session, calls, response>>
    /\ UNCHANGED <<strategy, now, tokens, cache, req, new_id_token, oracleCall>>

\* token = IdToken.objects.get(user=request.user), or the DoesNotExist
\* handler (lines 116-130)
LoadToken(r) ==
    /\ pc[r] = "load_token"
    /\ IF DoesNotExist(tokens, req[r].user)
       THEN /\ msgs' = [msgs EXCEPT ![r] = Append(@, MsgWrongProvider)]
            /\ session' = logout(session, req[r].user)
            /\ calls' = [calls EXCEPT ![r].logout = @ + 1]
            /\ response' = [response EXCEPT ![r] = HttpResponseRedirect(AUTH0_SIGNIN_VIEW)]
            /\ pc' = [pc EXCEPT ![r] = "done"]
            /\ UNCHANGED token
       ELSE /\ token' = [token EXCEPT ![r] = objects_get(tokens, req[r].user)]
            /\ pc' = [pc EXCEPT ![r] = "renew"]
            /\ UNCHANGED <<msgs, session, calls, response>>
    /\ UNCHANGED <<strategy, now, tokens, cache, req, new_id_token, oracleCall>>

\* process_request calling renew_id_token again after a first timeout
RenewRetry(r, outcome) ==
    LET res == renew_id_token(outcome)
        called == [calls EXCEPT ![r].renew = @ + 1, ![r].renew_arg = token[r].id_token,
                                ![r].outcome = outcome.kind]
    IN  /\ pc[r] = "renew"
        /\ IF res.raised # None
           THEN IF CaughtByProcessRequest(res.raised) /\ calls[r].renew = 0
                THEN /\ calls' = called
                     /\ UNCHANGED <<msgs, session, response, pc, new_id_token>>
                ELSE IF CaughtByProcessRequest(res.raised)
                THEN /\ msgs' = [msgs EXCEPT ![r] = Append(@, MsgNetworkProblem)]
                     /\ session' = logout(session, req[r].user)
                     /\ calls' = [called EXCEPT ![r].logout = @ + 1]
                     /\ response' = [response EXCEPT ![r] = HttpResponseRedirect(AUTH0_SIGNIN_VIEW)]
                     /\ pc' = [pc EXCEPT ![r] = "done"]
                     /\ UNCHANGED new_id_token
                ELSE /\ calls' = called
                     /\ response' = [response EXCEPT ![r] = Raised]
                     /\ pc' = [pc EXCEPT ![r] = "done"]
                     /\ UNCHANGED <<msgs, session, new_id_token>>
           ELSE /\ new_id_token' = [new_id_token EXCEPT ![r] = res.value]
                /\ IF Truthy(res.value)
                   THEN /\ calls' = called
                        /\ pc' = [pc EXCEPT ![r] = "save"]
                        /\ UNCHANGED <<msgs, session, response>>
                   ELSE /\ msgs' = [msgs EXCEPT ![r] = Append(@, MsgExpiredSession)]
                        /\ session' = logout(session, req[r].user)
                        /\ calls' = [called EXCEPT ![r].logout = @ + 1]
                        /\ response' = [response EXCEPT ![r] = HttpResponseRedirect(AUTH0_SIGNIN_VIEW)]
                        /\ pc' = [pc EXCEPT ![r] = "done"]
        /\ UNCHANGED <<strategy, now, tokens, cache, req, token, oracleCall>>

\* new_id_token = renew_id_token(token.id_token) and what follows a failure
\* (lines 132-145 and 157-166); a renewed token goes on to the save
Renew(r, outcome) ==
    LET res == renew_id_token(outcome)
        called == [calls EXCEPT ![r].renew = @ + 1, ![r].renew_arg = token[r].id_token,
                                ![r].outcome = outcome.kind]
    IN  /\ pc[r] = "renew"
        /\ IF res.raised # None
           THEN IF CaughtByProcessRequest(res.raised)
                THEN /\ msgs' = [msgs EXCEPT ![r] = Append(@, MsgNetworkProblem)]
                     /\ session' = logout(session, req[r].user)
                     /\ calls' = [called EXCEPT ![r].logout = @ + 1]
                     /\ response' = [response EXCEPT ![r] = HttpResponseRedirect(AUTH0_SIGNIN_VIEW)]
                     /\ pc' = [pc EXCEPT ![r] = "done"]
                     /\ UNCHANGED new_id_token
                ELSE /\ calls' = called
                     /\ response' = [response EXCEPT ![r] = Raised]
                     /\ pc' = [pc EXCEPT ![r] = "done"]
                     /\ UNCHANGED <<msgs, session, new_id_token>>
           ELSE /\ new_id_token' = [new_id_token EXCEPT ![r] = res.value]
                /\ IF Truthy(res.value)
                   THEN /\ calls' = called
                        /\ pc' = [pc EXCEPT ![r] = "save"]
                        /\ UNCHANGED <<msgs, session, response>>
                   ELSE /\ msgs' = [msgs EXCEPT ![r] = Append(@, MsgExpiredSession)]
                        /\ session' = logout(session, req[r].user)
                        /\ calls' = [called EXCEPT ![r].logout = @ + 1]
                        /\ response' = [response EXCEPT ![r] = HttpResponseRedirect(AUTH0_SIGNIN_VIEW)]
                        /\ pc' = [pc EXCEPT ![r] = "done"]
        /\ UNCHANGED <<strategy, now, tokens, cache, req, token, oracleCall>>

\* a save that gives way when the row changed since it was loaded
SaveFirstWins(r) ==
    LET obj == [token[r] EXCEPT !.id_token = new_id_token[r],
                                !.expire = now + AUTH0_ID_TOKEN_EXPIRY]
    IN  /\ pc[r] = "save"
        /\ token' = [token EXCEPT ![r] = obj]
        /\ tokens' = IF token[r] \in tokens THEN save(tokens, obj) ELSE tokens
        /\ calls' = [calls EXCEPT ![r].save = @ + 1]
        /\ pc' = [pc EXCEPT ![r] = "update_expiration"]
        /\ UNCHANGED <<strategy, now, cache, session, req, new_id_token, response,
                       msgs, oracleCall>>

\* token.id_token = ...; token.expire = ...; token.save()   (lines 149-151)
Save(r) ==
    LET obj == [token[r] EXCEPT !.id_token = new_id_token[r],
                                !.expire = now + AUTH0_ID_TOKEN_EXPIRY]
    IN  /\ pc[r] = "save"
        /\ token' = [token EXCEPT ![r] = obj]
        /\ tokens' = save(tokens, obj)
        /\ calls' = [calls EXCEPT ![r].save = @ + 1]
        /\ pc' = [pc EXCEPT ![r] = "update_expiration"]
        /\ UNCHANGED <<strategy, now, cache, session, req, new_id_token, response,
                       msgs, oracleCall>>

\* self.update_expiration(request); return   (lines 153-155)
UpdateExpiration(r) ==
    /\ pc[r] = "update_expiration"
    /\ cache' = update_expiration(strategy, cache, req[r].user, now)
    /\ calls' = [calls EXCEPT ![r].update_expiration = @ + 1,
                              ![r].lagged = (token[r].expire # now + AUTH0_ID_TOKEN_EXPIRY)]
    /\ response' = [response EXCEPT ![r] = ReturnNone]
    /\ pc' = [pc EXCEPT ![r] = "done"]
    /\ UNCHANGED <<strategy, now, tokens, session, req, token, new_id_token, msgs,
                   oracleCall>>

Next ==
    \/ Tick
    \/ \E r \in Reqs, shape \in Shapes, who \in Users \cup {Anonymous} : Begin(r, shape, who)
    \/ \E r \in Reqs : CheckExpiry(r)
    \/ \E r \in Reqs : LoadToken(r)
    \/ \E r \in Reqs, outcome \in RenewOutcomes : Renew(r, outcome)
    \/ \E r \in Reqs : Save(r)
    \/ \E r \in Reqs : UpdateExpiration(r)

Spec == Init /\ [][Next]_vars

\* ------------------------------------- a cache that is not empty at the start
\* the cache outlives the process: it holds the entry that the renewal which
\* wrote alice's row left, expiring with the row
WarmCache(table) ==
    { [key |-> CacheKey(row.user), value |-> TRUE, expires |-> row.expire] :
        row \in RowsOf(table, "alice") }

InitWarm ==
    /\ strategy \in {"direct", "cached"}
    /\ now = 0
    /\ tokens \in InitTokens
    /\ cache = WarmCache(tokens)
    /\ session = [u \in Users |-> TRUE]
    /\ pc = [r \in Reqs |-> "idle"]
    /\ req = [r \in Reqs |-> NullReq]
    /\ token = [r \in Reqs |-> NullToken]
    /\ new_id_token = [r \in Reqs |-> None]
    /\ response = [r \in Reqs |-> Pending]
    /\ msgs = [r \in Reqs |-> <<>>]
    /\ calls = [r \in Reqs |-> NoCalls]
    /\ oracleCall = [op |-> "-", user |-> Anonymous, ret |-> FALSE, at |-> 0]

\* the requests of the user whose entry the cache holds
NextWarm ==
    \/ Tick
    \/ \E r \in Reqs, shape \in Shapes : Begin(r, shape, "alice")
    \/ \E r \in Reqs : CheckExpiry(r)
    \/ \E r \in Reqs : LoadToken(r)
    \/ \E r \in Reqs, outcome \in RenewOutcomes : Renew(r, outcome)
    \/ \E r \in Reqs : Save(r)
    \/ \E r \in Reqs : UpdateExpiration(r)

SpecWarm == InitWarm /\ [][NextWarm]_vars

\* ------------------------------------------- the oracle, called directly
\* self.is_expired(request) for a request of user u
CallIsExpired(u) ==
    /\ oracleCall' = [op |-> "is_expired", user |-> u,
                      ret |-> is_expired(strategy, tokens, cache, u, now), at |-> now]
    /\ UNCHANGED <<strategy, now, tokens, cache, session, pc, req, token, new_id_token,
                   response, msgs, calls>>

\* self.update_expiration(request) for a request of user u
CallUpdateExpiration(u) ==
    /\ cache' = update_expiration(strategy, cache, u, now)
    /\ oracleCall' = [op |-> "update_expiration", user |-> u, ret |-> FALSE, at |-> now]
    /\ UNCHANGED <<strategy, now, tokens, session, pc, req, token, new_id_token,
                   response, msgs, calls>>

NextOracle ==
    \/ Tick
    \/ \E u \in Users : CallIsExpired(u)
    \/ \E u \in Users : CallUpdateExpiration(u)

SpecOracle == Init /\ [][NextOracle]_vars

TypeOK ==
    /\ strategy \in {"direct", "cached"}
    /\ now \in 0..MaxTime
    /\ \A row \in tokens : row.user \in Users /\ row.id = PK(row.user)
    /\ \A r \in Reqs : pc[r] \in {"idle", "check_expiry", "load_token", "renew", "save",
                                  "update_expiration", "done"}

\* =================================================================== claims
NetworkFailures == {"ConnectTimeout", "ReadTimeout", "ConnectionError"}

HasExpiredToken(u) == \E row \in tokens : row.user = u /\ row.expire < now

\* C1: cached strategy: once update_expiration(u) has run, is_expired(u)
\* returns False on every call made before the entry's TTL has elapsed and
\* True on every call made once it has elapsed.
C1_CachedFreshUntilTTL ==
    (strategy = "cached" /\ oracleCall.op = "is_expired")
        => \A e \in cache :
              e.key = CacheKey(oracleCall.user)
                 => /\ oracleCall.at < e.expires => oracleCall.ret = FALSE
                    /\ oracleCall.at >= e.expires => oracleCall.ret = TRUE

\* C2: cached strategy: an eligible request of a user without a live cache
\* entry gets is_expired = True and goes on to load the token and renew.
C2_CacheMissForcesRenewal ==
    [][\A r \in Reqs :
          ( /\ pc[r] = "check_expiry"
            /\ pc'[r] # "check_expiry"
            /\ strategy = "cached"
            /\ ~cache_get(cache, CacheKey(req[r].user), now).found )
             => (calls'[r].expired /\ pc'[r] = "load_token")]_vars

\* C3: a renewal call that fails at the network level (a timeout or a failure
\* to connect) ends the request with the session invalidated, the "temporary
\* network problem" message and a redirect to the sign-in view; none escapes
\* process_request.
C3_NetworkFailureIsUnavailable ==
    \A r \in Reqs :
        calls[r].outcome \in NetworkFailures
           => /\ pc[r] = "done"
              /\ response[r] = HttpResponseRedirect(AUTH0_SIGNIN_VIEW)
              /\ msgs[r] = <<MsgNetworkProblem>>
              /\ calls[r].logout = 1
              /\ ~session[req[r].user]

\* C4: direct strategy: is_expired is True for a user without a row; with a row
\* it is True when the expiration is before now and False when the expiration
\* is now or later.
C4_DirectIsExpired ==
    (strategy = "direct" /\ oracleCall.op = "is_expired")
        => IF DoesNotExist(tokens, oracleCall.user)
           THEN oracleCall.ret = TRUE
           ELSE \A row \in RowsOf(tokens, oracleCall.user) :
                   /\ row.expire < oracleCall.at => oracleCall.ret = TRUE
                   /\ row.expire >= oracleCall.at => oracleCall.ret = FALSE

C4_Witness ==
    /\ strategy = "direct"
    /\ oracleCall.op = "is_expired"
    /\ oracleCall.ret = TRUE
    /\ \E row \in tokens : row.user = oracleCall.user /\ row.expire < oracleCall.at

\* the steps and the states the statement of C5 is about
C5_SaveStep ==
    /\ \A r \in Reqs :
        (pc[r] = "save" /\ pc'[r] # "save")
           => /\ RowsOf(tokens', req[r].user) =
                    { [id |-> PK(req[r].user), user |-> req[r].user,
                       id_token |-> new_id_token[r],
                       expire |-> now + AUTH0_ID_TOKEN_EXPIRY] }
              /\ session' = session
    /\ \A r \in Reqs :
        (pc[r] = "update_expiration" /\ pc'[r] # "update_expiration") => session' = session

C5_Renewed ==
    \A r \in Reqs :
        (calls[r].renew = 1 /\ new_id_token[r] \in TokenValues)
           => /\ calls[r].expired /\ token[r] # NullToken
              /\ pc[r] \in {"save", "update_expiration", "done"}
              /\ calls[r].logout = 0
              /\ msgs[r] = <<>>
              /\ pc[r] = "done"
                    => /\ response[r] = ReturnNone
                       /\ calls[r].save = 1
                       /\ calls[r].update_expiration = 1

\* C5: when renew returns a new token value for an eligible request whose
\* is_expired was True and whose row exists, the row gets that value and the
\* expiration now + AUTH0_ID_TOKEN_EXPIRY, update_expiration is called, the
\* request does not log out and process_request returns None.
C5_RenewedProceeds == [][C5_SaveStep /\ C5_Renewed']_vars

C5_Witness ==
    \E r \in Reqs :
        /\ pc[r] = "done"
        /\ new_id_token[r] \in TokenValues
        /\ response[r] = ReturnNone
        /\ session[req[r].user]
        /\ \E row \in tokens :
              /\ row.user = req[r].user
              /\ row.id_token = new_id_token[r]
              /\ row.expire = now + AUTH0_ID_TOKEN_EXPIRY

\* the steps and the states the statement of C6 is about
C6_RejectStep ==
    /\ \A r \in Reqs :
        (pc[r] = "renew" /\ pc'[r] # "renew"
            /\ calls'[r].outcome = "json" /\ new_id_token'[r] = None)
           => /\ tokens' = tokens
              /\ ~session'[req[r].user]
    /\ tokens' # tokens => \E q \in Reqs : calls'[q].save = calls[q].save + 1

C6_Rejected ==
    \A r \in Reqs :
        (calls[r].outcome = "json" /\ new_id_token[r] = None)
           => /\ pc[r] = "done"
              /\ response[r] = HttpResponseRedirect(AUTH0_SIGNIN_VIEW)
              /\ msgs[r] = <<MsgExpiredSession>>
              /\ calls[r].logout = 1
              /\ calls[r].save = 0
              /\ ~session[req[r].user]

\* C6: when renew returns no token value (a JSON response without id_token)
\* for an eligible request with an expired token and an existing row, the
\* session is invalidated, the "expired authentication session" message is
\* emitted, a redirect to the sign-in view is returned and the row is not
\* written.
C6_RejectedLogsOut == [][C6_RejectStep /\ C6_Rejected']_vars

C6_Witness ==
    \E r \in Reqs :
        /\ pc[r] = "done"
        /\ calls[r].outcome = "json"
        /\ new_id_token[r] = None
        /\ msgs[r] = <<MsgExpiredSession>>
        /\ token[r] \in tokens

\* the steps and the states the statement of C7 is about
C7_MissingStep ==
    \A r \in Reqs :
        (pc[r] = "load_token" /\ pc'[r] # "load_token" /\ DoesNotExist(tokens, req[r].user))
           => /\ pc'[r] = "done"
              /\ response'[r] = HttpResponseRedirect(AUTH0_SIGNIN_VIEW)
              /\ msgs'[r] = <<MsgWrongProvider>>
              /\ calls'[r].logout = 1
              /\ ~session'[req[r].user]

C7_Missing ==
    \A r \in Reqs :
        (pc[r] = "done" /\ calls[r].expired /\ token[r] = NullToken)
           => /\ msgs[r] = <<MsgWrongProvider>>
              /\ calls[r].renew = 0
              /\ calls[r].outcome = None

\* C7: when is_expired is True for an eligible request and the user has no
\* row, the session is invalidated, the "wrong provider" message is emitted,
\* a redirect to the sign-in view is returned and renew_id_token is not
\* called.
C7_MissingRecordLogsOut == [][C7_MissingStep /\ C7_Missing']_vars

C7_Witness ==
    \E r \in Reqs :
        /\ pc[r] = "done"
        /\ calls[r].expired
        /\ DoesNotExist(tokens, req[r].user)
        /\ msgs[r] = <<MsgWrongProvider>>
        /\ calls[r].renew = 0

\* the steps and the states the statement of C8 is about
C8_CallbackStep ==
    \A r \in Reqs :
        (pc[r] = "idle" /\ pc'[r] # "idle" /\ req'[r].path = AUTH0_CALLBACK_URL.path)
           => /\ pc'[r] = "done"
              /\ UNCHANGED <<tokens, cache, session>>

C8_Callback ==
    \A r \in Reqs :
        req[r].path = AUTH0_CALLBACK_URL.path
           => pc[r] = "done" /\ calls[r] = NoCalls

\* C8: a request to the callback path never calls is_expired or
\* renew_id_token and never changes the IdToken table, the cache or the
\* session, whether the user's token is absent, expired or valid.
C8_CallbackNeverRenews == [][C8_CallbackStep /\ C8_Callback']_vars

C8_Witness ==
    \E r \in Reqs :
        /\ pc[r] = "done"
        /\ req[r] = [method |-> "GET", is_ajax |-> FALSE, path |-> AUTH0_CALLBACK_URL.path,
                     user |-> "alice"]
        /\ strategy = "direct"
        /\ HasExpiredToken("alice")
        /\ calls[r] = NoCalls

\* the users, steps and states the statement of C9 is about
ExemptUsers ==
    { u \in Users : /\ UserRec(u).email # <<>>
                    /\ EmailDomain(UserRec(u).email) \notin AUTH0_ID_TOKEN_DOMAINS }

ExemptDomain(u) == u \in ExemptUsers

C9_ExemptStep ==
    \A r \in Reqs :
        (pc[r] = "idle" /\ pc'[r] # "idle" /\ ExemptDomain(req'[r].user))
           => /\ pc'[r] = "done"
              /\ UNCHANGED <<tokens, cache, session>>

C9_Exempt ==
    \A r \in Reqs :
        (pc[r] # "idle" /\ ExemptDomain(req[r].user))
           => /\ pc[r] = "done"
              /\ calls[r] = NoCalls
              /\ msgs[r] = <<>>
              /\ response[r] = ReturnNone

\* C9: a request of a user whose lower-cased email domain is not in
\* AUTH0_ID_TOKEN_DOMAINS makes no expiry check and no renewal, changes
\* neither table, cache nor session, and returns None.
C9_ExemptDomainProceeds == [][C9_ExemptStep /\ C9_Exempt']_vars

C9_Witness ==
    \E r \in Reqs :
        /\ pc[r] = "done"
        /\ req[r] = [method |-> "GET", is_ajax |-> FALSE, path |-> "/", user |-> "bob"]
        /\ strategy = "direct"
        /\ HasExpiredToken("bob")
        /\ response[r] = ReturnNone

\* the requests, steps and states the statement of C10 is about
Skipped(rq) ==
    \/ rq.method = "POST"
    \/ rq.is_ajax
    \/ ~UserRec(rq.user).is_active
    \/ UserRec(rq.user).email = <<>>

C10_SkipStep ==
    \A r \in Reqs :
        (pc[r] = "idle" /\ pc'[r] # "idle" /\ Skipped(req'[r]))
           => /\ pc'[r] = "done"
              /\ UNCHANGED <<tokens, cache, session>>

C10_Skip ==
    \A r \in Reqs :
        (pc[r] # "idle" /\ Skipped(req[r]))
           => /\ pc[r] = "done"
              /\ calls[r] = NoCalls
              /\ msgs[r] = <<>>
              /\ response[r] = ReturnNone

\* C10: a POST request, an AJAX request, a request of a user who is not
\* authenticated and active, and a request of a user without an email address
\* never call is_expired or renew_id_token, change neither table, cache nor
\* session, and return None.
C10_SkippedRequestsUntouched == [][C10_SkipStep /\ C10_Skip']_vars

C10_Witness ==
    \E r \in Reqs :
        /\ pc[r] = "done"
        /\ req[r] = [method |-> "GET", is_ajax |-> TRUE, path |-> "/", user |-> "alice"]
        /\ strategy = "direct"
        /\ HasExpiredToken("alice")
        /\ calls[r] = NoCalls

\* the rows the table starts with
InitRows == UNION InitTokens

\* C11: with requests of the same user interleaved, every row of the IdToken
\* table that a reader can see holds a matched pair: the id_token and the
\* expire that one save wrote together (or the pair the row started with),
\* never the id_token of one write with the expire of another.
C11_MatchedPair ==
    \A row \in tokens :
        \/ row \in InitRows
        \/ \E r \in Reqs : calls[r].save = 1 /\ token[r] = row

C11_Witness ==
    \E r, q \in Reqs :
        /\ r # q
        /\ req[r].user = req[q].user
        /\ calls[r].save = 1
        /\ pc[q] = "renew"
        /\ token[q] = token[r]
        /\ token[q] \in tokens
        /\ token[q] \notin InitRows

\* the step and the states the statement of C12 is about
C12_ValidStep ==
    \A r \in Reqs :
        (pc[r] = "check_expiry" /\ pc'[r] # "check_expiry"
            /\ ~is_expired(strategy, tokens, cache, req[r].user, now))
           => /\ pc'[r] = "done"
              /\ response'[r] = ReturnNone
              /\ UNCHANGED <<tokens, cache, session, msgs>>

C12_Valid ==
    \A r \in Reqs :
        (calls[r].is_expired = 1 /\ ~calls[r].expired)
           => /\ pc[r] = "done"
              /\ response[r] = ReturnNone
              /\ msgs[r] = <<>>
              /\ calls[r].renew = 0
              /\ calls[r].save = 0
              /\ calls[r].update_expiration = 0
              /\ calls[r].logout = 0

\* C12: when is_expired returns False for an eligible request, the request
\* ends with no side effect: renew_id_token is not called, table and cache
\* are unchanged, the session is kept, no message is emitted and None is
\* returned.
C12_ValidNoSideEffects == [][C12_ValidStep /\ C12_Valid']_vars

C12_Witness ==
    \E r \in Reqs :
        /\ strategy = "direct"
        /\ pc[r] = "done"
        /\ calls[r].is_expired = 1
        /\ ~calls[r].expired
        /\ \E row \in tokens : row.user = req[r].user /\ row.expire >= now
        /\ session[req[r].user]

\* C13: when the body of the response is not JSON, renew_id_token returns None
\* instead of raising, and process_request handles it as a rejected renewal:
\* logout, the "expired authentication session" message and a redirect to the
\* sign-in view, never the "temporary network problem" path.
C13_NotJsonIsRejected ==
    \A r \in Reqs :
        calls[r].outcome = "not_json"
           => /\ renew_id_token([kind |-> "not_json", id_token |-> None]).raised = None
              /\ new_id_token[r] = None
              /\ pc[r] = "done"
              /\ response[r] = HttpResponseRedirect(AUTH0_SIGNIN_VIEW)
              /\ msgs[r] = <<MsgExpiredSession>>
              /\ calls[r].logout = 1
              /\ calls[r].save = 0
              /\ ~session[req[r].user]

C13_Witness ==
    \E r \in Reqs :
        /\ calls[r].outcome = "not_json"
        /\ pc[r] = "done"
        /\ msgs[r] = <<MsgExpiredSession>>
        /\ response[r].kind = "redirect"

\* the steps and the states the statement of C14 is about
C14_WriteStep ==
    /\ tokens' # tokens
          => \E r \in Reqs :
                /\ pc[r] = "save" /\ pc'[r] = "update_expiration"
                /\ calls[r].renew = 1
                /\ new_id_token[r] \in TokenValues
                /\ \A row \in tokens : row.user # req[r].user => row \in tokens'
    /\ \A u \in Users : Cardinality(RowsOf(tokens', u)) = Cardinality(RowsOf(tokens, u))

C14_OtherPaths ==
    /\ \A u \in Users : Cardinality(RowsOf(tokens, u)) <= 1
    /\ \A r \in Reqs :
          (pc[r] = "done" /\ ~(calls[r].renew = 1 /\ new_id_token[r] \in TokenValues))
             => calls[r].save = 0

\* C14: a row of the IdToken table changes only in the save of a renewal; on
\* the not-applicable, valid, missing-row, unavailable and rejected paths
\* id_token and expire are unchanged, and no path deletes a row or gives a
\* user a second row.
C14_OnlyRenewalWrites == [][C14_WriteStep /\ C14_OtherPaths']_vars

C14_Witness ==
    \E r, q \in Reqs :
        /\ req[r].user = req[q].user
        /\ pc[r] = "done" /\ calls[r].save = 1
        /\ pc[q] = "done" /\ calls[q].logout = 1 /\ calls[q].renew = 1
        /\ token[r] \in tokens
        /\ Cardinality(RowsOf(tokens, req[r].user)) = 1

LiveEntries == { e \in cache : now < e.expires }
EntryUser(e) == e.key[2]

\* no renewal so far had the clock advance between its save and its
\* cache.set
NoRenewalLagged == \A r \in Reqs : ~calls[r].lagged

Savers(u) == { r \in Reqs : req[r].user = u /\ calls[r].save = 1 }

\* the step and the states the statement of C17 is about
C17_LastSaveStep ==
    \A r \in Reqs :
        (pc[r] = "save" /\ pc'[r] # "save") => RowsOf(tokens', req[r].user) = { token'[r] }

C17_BothRenewed ==
    /\ \A r \in Reqs :
          calls[r].save = 1
             => /\ calls[r].logout = 0
                /\ msgs[r] = <<>>
                /\ pc[r] = "done" => response[r] = ReturnNone
    /\ \A u \in Users :
          /\ ~session[u] => \E r \in Reqs : req[r].user = u /\ calls[r].logout = 1
          /\ \A row \in RowsOf(tokens, u) : \A r \in Savers(u) : row.expire >= token[r].expire

\* C17: renewals are not deduplicated: two eligible requests of one user that
\* both saw is_expired = True before either saved can both call
\* renew_id_token and both end renewed; the row is then the pair of the
\* request that saved last, and neither is logged out because of the other.
C17_NoDeduplication == [][C17_LastSaveStep /\ C17_BothRenewed']_vars

C17_Witness ==
    \E r, q \in Reqs :
        /\ r # q
        /\ req[r].user = req[q].user
        /\ pc[r] = "done" /\ calls[r].save = 1 /\ calls[r].renew_arg = "t0"
        /\ pc[q] = "done" /\ calls[q].save = 1 /\ calls[q].renew_arg = "t0"
        /\ response[r] = ReturnNone /\ response[q] = ReturnNone
        /\ token[r].expire < token[q].expire
        /\ RowsOf(tokens, req[q].user) = { token[q] }
        /\ session[req[q].user]

\* the step and the states the statement of C18 is about: q ended renewed and
\* its pair is still the row, so that token[q].expire is the time of its
\* write plus AUTH0_ID_TOKEN_EXPIRY
C18_CheckStep ==
    \A r, q \in Reqs :
        ( /\ strategy = "direct"
          /\ r # q
          /\ req[r].user = req[q].user
          /\ pc[q] = "done" /\ calls[q].save = 1
          /\ RowsOf(tokens, req[q].user) = { token[q] }
          /\ pc[r] = "check_expiry" /\ pc'[r] # "check_expiry" )
           => /\ now <= token[q].expire
                    => /\ pc'[r] = "done"
                       /\ response'[r] = ReturnNone
                       /\ calls'[r].renew = 0
                       /\ tokens' = tokens
              /\ now > token[q].expire => pc'[r] = "load_token"

C18_RenewsAgain ==
    \A r \in Reqs :
        (strategy = "direct" /\ pc[r] = "done" /\ calls[r].expired /\ token[r] # NullToken)
           => calls[r].renew = 1

\* C18: direct strategy: after a renewal of user u wrote the row at time t,
\* every eligible request of u that checks at a time not after
\* t + AUTH0_ID_TOKEN_EXPIRY ends valid without calling renew_id_token, as
\* long as no other renewal wrote the row; one that checks after
\* t + AUTH0_ID_TOKEN_EXPIRY renews again.
C18_ValidForInterval == [][C18_CheckStep /\ C18_RenewsAgain']_vars

C18_Witness ==
    \E r, q \in Reqs :
        /\ strategy = "direct"
        /\ r # q
        /\ req[r].user = req[q].user
        /\ pc[q] = "done" /\ calls[q].save = 1 /\ calls[q].renew_arg = "t0"
        /\ pc[r] = "done" /\ calls[r].renew = 1 /\ calls[r].renew_arg = "t1"
        /\ token[q].expire < token[r].expire

\* the steps and the states the statement of C19 is about
C19_LogoutStep ==
    /\ \A r \in Reqs :
          calls'[r].logout # calls[r].logout
             => /\ calls'[r].logout = calls[r].logout + 1
                /\ Len(msgs'[r]) = Len(msgs[r]) + 1
                /\ response'[r] = HttpResponseRedirect(AUTH0_SIGNIN_VIEW)
                /\ ~session'[req[r].user]
    /\ session' # session => \E r \in Reqs : calls'[r].logout # calls[r].logout
    /\ \A r \in Reqs : msgs'[r] # msgs[r] => calls'[r].logout # calls[r].logout

C19_RedirectIffLogout ==
    \A r \in Reqs :
        /\ response[r].kind = "redirect" <=> calls[r].logout = 1
        /\ calls[r].logout <= 1
        /\ calls[r].logout = 1 => Len(msgs[r]) = 1 /\ pc[r] = "done"
        /\ (pc[r] = "done" /\ response[r].kind # "redirect")
              => calls[r].logout = 0 /\ msgs[r] = <<>>

\* C19: with either strategy, a request returns a redirect to the sign-in view
\* exactly when it invalidated the session, and then it emitted exactly one
\* error message with the logout; a request that returns no redirect does not
\* touch the session and emits no message.
C19_RedirectExactlyOnLogout == [][C19_LogoutStep /\ C19_RedirectIffLogout']_vars

C19_Witness ==
    \E r, q \in Reqs :
        /\ strategy = "cached"
        /\ req[r].user = "alice"
        /\ pc[r] = "done" /\ response[r] = ReturnNone /\ calls[r].save = 1
        /\ pc[q] = "done" /\ response[q].kind = "redirect" /\ calls[q].logout = 1
        /\ msgs[q] = <<MsgNetworkProblem>>
        /\ ~session["alice"]

\* the steps and the states the statement of C20 is about
C20_CacheStep ==
    /\ cache' # cache
          => /\ strategy = "cached"
             /\ \E r \in Reqs :
                   /\ pc[r] = "update_expiration" /\ pc'[r] = "done"
                   /\ calls[r].save = 1
                   /\ token[r].id_token = new_id_token[r]
                   /\ \A e \in cache : e.key # CacheKey(req[r].user) => e \in cache'
                   /\ \A e \in cache' :
                         e.key = CacheKey(req[r].user)
                            => e.value /\ e.expires = now + AUTH0_ID_TOKEN_EXPIRY
    /\ \A r \in Reqs :
          (strategy = "direct" /\ pc[r] = "update_expiration" /\ pc'[r] # "update_expiration")
             => UNCHANGED <<tokens, cache, session, msgs>>

C20_NoOtherPath ==
    \A r \in Reqs :
        /\ calls[r].update_expiration <= calls[r].save
        /\ (pc[r] = "done" /\ ~(calls[r].renew = 1 /\ new_id_token[r] \in TokenValues))
              => calls[r].update_expiration = 0

\* C20: the cache is written only by update_expiration in a renewal, after
\* the save of the same request: the logout paths, the valid path and the
\* not-applicable path neither set nor delete an entry, and under the direct
\* strategy update_expiration changes nothing.
C20_OnlyRenewalWritesCache == [][C20_CacheStep /\ C20_NoOtherPath']_vars

C20_Witness ==
    \E r \in Reqs :
        /\ strategy = "cached"
        /\ pc[r] = "done"
        /\ calls[r].update_expiration = 1
        /\ calls[r].lagged
        /\ token[r] \in tokens
        /\ [key |-> CacheKey(req[r].user), value |-> TRUE,
            expires |-> now + AUTH0_ID_TOKEN_EXPIRY] \in cache

====
